---- MODULE Spec2Model ----
(***************************************************************************)
(* nengo_viz/viz.py: the Viz organizer (template, build lock, registry of  *)
(* components waiting for a websocket) and its VizSim sessions.  Every     *)
(* create_sim() call runs VizSim.__init__ on the calling thread and then   *)
(* VizSim.runner on a thread of its own; pop_component() is called from    *)
(* the server's connection threads; slider()/value()/finish() from any     *)
(* thread.  One action is one step that the interpreter cannot interleave  *)
(* with another thread's step on the same data.                            *)
(***************************************************************************)
EXTENDS Naturals, Sequences, FiniteSets

\* ---------------------------------------------------------------- bounds
MaxSessions == 2     \* create_sim() calls
MaxTemplate == 2     \* template entries (the SimControl entry included)
MaxLate == 2         \* lateSteps counts 0, 1, ..., MaxLate-or-more
MaxPops == 2         \* pop_component() calls

Sessions == 1..MaxSessions
Poppers == 1..MaxPops
MaxObjs == MaxSessions * MaxTemplate
Objs == 1..MaxObjs

ArgKinds == {"ok", "bad"}

VARIABLES
    template,        \* Viz.template: sequence of (cls, args)
    lock,            \* Viz.lock: TRUE when locked
    viz_components,  \* Viz.components: id -> component
    heap,            \* the component objects allocated so far, by reference
    model,           \* references of the components whose temporary nengo
                     \* objects are in Viz.model
    building,        \* VizSim.building
    finished,        \* VizSim.finished
    sim,             \* VizSim.sim exists
    components,      \* VizSim.components
    cpc, cIdx, cCur, \* __init__: position, list-iterator index, local c
    rpc, rIdx,       \* runner: position, list-iterator index
    ppc, pId, pC,    \* pop_component: position, argument id, local c
    nAtCall,         \* history: Len(template) when create_sim() was called
    finBuilding,     \* history: finish() was called while building
    lateSteps        \* history: sim.run steps started after finish()

vars == <<template, lock, viz_components, heap, model, building, finished,
          sim, components, cpc, cIdx, cCur, rpc, rIdx, ppc, pId, pC,
          nAtCall, finBuilding, lateSteps>>

sessVars == <<building, finished, sim, components>>
initVars == <<cpc, cIdx, cCur>>
runVars == <<rpc, rIdx>>
popVars == <<ppc, pId, pC>>
histVars == <<nAtCall, finBuilding, lateSteps>>

\* a key made from the component's class instead of its identity
IdByClass(c) == IF heap[c].cls = "SimControl" THEN 1 ELSE MaxObjs

\* builtin id(): the identity of a live object, which is its reference
Id(c) == c

\* a session holds the lock from its acquire (line 22) to its release
\* (line 41)
Holds(s) ==
    /\ cpc[s] \in {"loop", "add", "returned", "raised"}
    /\ rpc[s] \in {"unstarted", "build", "undo", "release", "failed"}

Init ==
    /\ template = <<[cls |-> "SimControl", args |-> "ok"]>>
    /\ lock = FALSE
    /\ viz_components = <<>>
    /\ heap = <<>>
    /\ model = {}
    /\ building = [s \in Sessions |-> TRUE]
    /\ finished = [s \in Sessions |-> FALSE]
    /\ sim = [s \in Sessions |-> FALSE]
    /\ components = [s \in Sessions |-> <<>>]
    /\ cpc = [s \in Sessions |-> "idle"]
    /\ cIdx = [s \in Sessions |-> 0]
    /\ cCur = [s \in Sessions |-> 0]
    /\ rpc = [s \in Sessions |-> "unstarted"]
    /\ rIdx = [s \in Sessions |-> 0]
    /\ ppc = [p \in Poppers |-> "idle"]
    /\ pId = [p \in Poppers |-> 0]
    /\ pC = [p \in Poppers |-> 0]
    /\ nAtCall = [s \in Sessions |-> 0]
    /\ finBuilding = [s \in Sessions |-> FALSE]
    /\ lateSteps = [s \in Sessions |-> 0]

\* the templates that slider() and value() calls made before the server
\* starts can leave
Entries == [cls : {"Slider", "Value"}, args : ArgKinds]

Templates ==
    {<<[cls |-> "SimControl", args |-> "ok"]>> \o t :
        t \in UNION {[1..n -> Entries] : n \in 0..(MaxTemplate - 1)}}

\* the state after Viz.__init__ and the configuration calls
InitConfigured ==
    /\ template \in Templates
    /\ lock = FALSE
    /\ viz_components = <<>>
    /\ heap = <<>>
    /\ model = {}
    /\ building = [s \in Sessions |-> TRUE]
    /\ finished = [s \in Sessions |-> FALSE]
    /\ sim = [s \in Sessions |-> FALSE]
    /\ components = [s \in Sessions |-> <<>>]
    /\ cpc = [s \in Sessions |-> "idle"]
    /\ cIdx = [s \in Sessions |-> 0]
    /\ cCur = [s \in Sessions |-> 0]
    /\ rpc = [s \in Sessions |-> "unstarted"]
    /\ rIdx = [s \in Sessions |-> 0]
    /\ ppc = [p \in Poppers |-> "idle"]
    /\ pId = [p \in Poppers |-> 0]
    /\ pC = [p \in Poppers |-> 0]
    /\ nAtCall = [s \in Sessions |-> 0]
    /\ finBuilding = [s \in Sessions |-> FALSE]
    /\ lateSteps = [s \in Sessions |-> 0]

\* ------------------------------------------------------------------- Viz

\* a configuration call that also extends the sessions already created
ConfigureReachesBack(cls, args) ==
    /\ Len(template) < MaxTemplate
    /\ template' = Append(template, [cls |-> cls, args |-> args])
    /\ components' = [s \in Sessions |->
                         IF cpc[s] = "returned" /\ components[s] # <<>>
                           THEN Append(components[s], components[s][1])
                           ELSE components[s]]
    /\ UNCHANGED <<lock, viz_components, heap, model, building, finished,
                   sim, initVars, runVars, popVars, histVars>>

\* Viz.slider / Viz.value: append (cls, args, kwargs) to the template
Configure(cls, args) ==
    /\ Len(template) < MaxTemplate
    /\ template' = Append(template, [cls |-> cls, args |-> args])
    /\ UNCHANGED <<lock, viz_components, heap, model, sessVars, initVars,
                   runVars, popVars, histVars>>

slider(args) == Configure("Slider", args)

value(args) == Configure("Value", args)

\* Viz.add: self.components[id(component)] = component
add(reg, c) == [k \in (DOMAIN reg) \cup {Id(c)} |-> IF k = Id(c) THEN c ELSE reg[k]]

\* --------------------------------------------------------- VizSim.__init__

\* Viz.create_sim -> VizSim.__init__, lines 14-19: the fields of the new
\* session.  Sessions are numbered in the order of their calls.
create_sim(s) ==
    /\ cpc[s] = "idle"
    /\ \A t \in Sessions : t < s => cpc[t] # "idle"
    /\ cpc' = [cpc EXCEPT ![s] = "acquire"]
    /\ building' = [building EXCEPT ![s] = TRUE]
    /\ finished' = [finished EXCEPT ![s] = FALSE]
    /\ components' = [components EXCEPT ![s] = <<>>]
    /\ nAtCall' = [nAtCall EXCEPT ![s] = Len(template)]
    /\ UNCHANGED <<template, lock, viz_components, heap, model, sim, cIdx,
                   cCur, runVars, popVars, finBuilding, lateSteps>>

\* an acquire that does not wait for the lock to be free
AcquireNoWait(s) ==
    /\ cpc[s] = "acquire"
    /\ lock' = TRUE
    /\ cpc' = [cpc EXCEPT ![s] = "loop"]
    /\ UNCHANGED <<template, viz_components, heap, model, sessVars, cIdx,
                   cCur, runVars, popVars, histVars>>

\* line 22: self.viz.lock.acquire(), blocking while the lock is locked
Acquire(s) ==
    /\ cpc[s] = "acquire"
    /\ lock = FALSE
    /\ lock' = TRUE
    /\ cpc' = [cpc EXCEPT ![s] = "loop"]
    /\ UNCHANGED <<template, viz_components, heap, model, sessVars, cIdx,
                   cCur, runVars, popVars, histVars>>

\* lines 25-26: the list iterator yields the next entry of the live
\* template and c = cls(self, *args, **kwargs) adds its objects to the model
Construct(s) ==
    /\ cpc[s] = "loop"
    /\ cIdx[s] < Len(template)
    /\ template[cIdx[s] + 1].args = "ok"
    /\ Len(heap) < MaxObjs
    /\ heap' = Append(heap, [cls |-> template[cIdx[s] + 1].cls, viz_sim |-> s])
    /\ cCur' = [cCur EXCEPT ![s] = Len(heap) + 1]
    /\ cIdx' = [cIdx EXCEPT ![s] = @ + 1]
    /\ model' = model \cup {Len(heap) + 1}
    /\ cpc' = [cpc EXCEPT ![s] = "add"]
    /\ UNCHANGED <<template, lock, viz_components, sessVars, runVars,
                   popVars, histVars>>

\* line 26 when the component class rejects its arguments: the exception
\* leaves __init__ and create_sim(); nothing releases the lock
ConstructFail(s) ==
    /\ cpc[s] = "loop"
    /\ cIdx[s] < Len(template)
    /\ template[cIdx[s] + 1].args = "bad"
    /\ cIdx' = [cIdx EXCEPT ![s] = @ + 1]
    /\ cpc' = [cpc EXCEPT ![s] = "raised"]
    /\ UNCHANGED <<template, lock, viz_components, heap, model, sessVars,
                   cCur, runVars, popVars, histVars>>

\* a registration that takes the build lock for itself
RegisterLocked(s) ==
    /\ cpc[s] = "add"
    /\ lock = FALSE
    /\ viz_components' = add(viz_components, cCur[s])
    /\ components' = [components EXCEPT ![s] = Append(@, cCur[s])]
    /\ cpc' = [cpc EXCEPT ![s] = "loop"]
    /\ UNCHANGED <<template, lock, heap, model, building, finished, sim,
                   cIdx, cCur, runVars, popVars, histVars>>

\* lines 27-28: self.viz.add(c); self.components.append(c)
Register(s) ==
    /\ cpc[s] = "add"
    /\ viz_components' = add(viz_components, cCur[s])
    /\ components' = [components EXCEPT ![s] = Append(@, cCur[s])]
    /\ cpc' = [cpc EXCEPT ![s] = "loop"]
    /\ UNCHANGED <<template, lock, heap, model, building, finished, sim,
                   cIdx, cCur, runVars, popVars, histVars>>

\* lines 25 and 31: the iterator is exhausted, thread.start_new_thread
\* starts the runner, and __init__ and create_sim() return
StartRunner(s) ==
    /\ cpc[s] = "loop"
    /\ cIdx[s] >= Len(template)
    /\ cpc' = [cpc EXCEPT ![s] = "returned"]
    /\ rpc' = [rpc EXCEPT ![s] = "build"]
    /\ UNCHANGED <<template, lock, viz_components, heap, model, sessVars,
                   cIdx, cCur, rIdx, popVars, histVars>>

\* ---------------------------------------------------------- VizSim.runner

\* a build that marks the session as running as soon as the simulator exists
BuildMarksRunning(s) ==
    /\ rpc[s] = "build"
    /\ sim' = [sim EXCEPT ![s] = TRUE]
    /\ building' = [building EXCEPT ![s] = FALSE]
    /\ rpc' = [rpc EXCEPT ![s] = "undo"]
    /\ UNCHANGED <<template, lock, viz_components, heap, model, finished,
                   components, initVars, rIdx, popVars, histVars>>

\* a build that releases the lock as soon as the simulator exists
BuildThenRelease(s) ==
    /\ rpc[s] = "build"
    /\ sim' = [sim EXCEPT ![s] = TRUE]
    /\ lock' = FALSE
    /\ rpc' = [rpc EXCEPT ![s] = "undo"]
    /\ UNCHANGED <<template, viz_components, heap, model, building,
                   finished, components, initVars, rIdx, popVars, histVars>>

\* line 35: self.sim = self.viz.Simulator(self.model, dt=self.dt)
Build(s) ==
    /\ rpc[s] = "build"
    /\ sim' = [sim EXCEPT ![s] = TRUE]
    /\ rpc' = [rpc EXCEPT ![s] = "undo"]
    /\ UNCHANGED <<template, lock, viz_components, heap, model, building,
                   finished, components, initVars, rIdx, popVars, histVars>>

\* a runner that catches the factory's exception and goes on
BuildFailSwallowed(s) ==
    /\ rpc[s] = "build"
    /\ rpc' = [rpc EXCEPT ![s] = "undo"]
    /\ UNCHANGED <<template, lock, viz_components, heap, model, sessVars,
                   initVars, rIdx, popVars, histVars>>

\* line 35 when the Simulator factory raises: the thread ends there
BuildFail(s) ==
    /\ rpc[s] = "build"
    /\ rpc' = [rpc EXCEPT ![s] = "failed"]
    /\ UNCHANGED <<template, lock, viz_components, heap, model, sessVars,
                   initVars, rIdx, popVars, histVars>>

\* a removal loop that goes through the components last to first
UndoReversed(s) ==
    /\ rpc[s] = "undo"
    /\ rIdx[s] < Len(components[s])
    /\ model' = model \ {components[s][Len(components[s]) - rIdx[s]]}
    /\ rIdx' = [rIdx EXCEPT ![s] = @ + 1]
    /\ UNCHANGED <<template, lock, viz_components, heap, sessVars, initVars,
                   rpc, popVars, histVars>>

\* a removal loop that also releases the lock after each component
UndoReleases(s) ==
    /\ rpc[s] = "undo"
    /\ rIdx[s] < Len(components[s])
    /\ model' = model \ {components[s][rIdx[s] + 1]}
    /\ rIdx' = [rIdx EXCEPT ![s] = @ + 1]
    /\ lock' = FALSE
    /\ UNCHANGED <<template, viz_components, heap, sessVars, initVars, rpc,
                   popVars, histVars>>

\* a removal loop that leaves the component's objects in the model
UndoNothing(s) ==
    /\ rpc[s] = "undo"
    /\ rIdx[s] < Len(components[s])
    /\ rIdx' = [rIdx EXCEPT ![s] = @ + 1]
    /\ UNCHANGED <<template, lock, viz_components, heap, model, sessVars,
                   initVars, rpc, popVars, histVars>>

\* lines 38-39: c.remove_nengo_objects(self.viz) for the next component
Undo(s) ==
    /\ rpc[s] = "undo"
    /\ rIdx[s] < Len(components[s])
    /\ model' = model \ {components[s][rIdx[s] + 1]}
    /\ rIdx' = [rIdx EXCEPT ![s] = @ + 1]
    /\ UNCHANGED <<template, lock, viz_components, heap, sessVars, initVars,
                   rpc, popVars, histVars>>

\* a runner that leaves the removal loop without releasing the lock
ReleaseForgets(s) ==
    /\ rpc[s] = "undo"
    /\ rIdx[s] >= Len(components[s])
    /\ rpc' = [rpc EXCEPT ![s] = "setrun"]
    /\ UNCHANGED <<template, lock, viz_components, heap, model, sessVars,
                   initVars, rIdx, popVars, histVars>>

\* lines 38 and 41: the loop ends and self.viz.lock.release()
Release(s) ==
    /\ rpc[s] = "undo"
    /\ rIdx[s] >= Len(components[s])
    /\ lock' = FALSE
    /\ rpc' = [rpc EXCEPT ![s] = "setrun"]
    /\ UNCHANGED <<template, viz_components, heap, model, sessVars, initVars,
                   rIdx, popVars, histVars>>

\* a runner that clears the stop request when it starts running
SetRunningResets(s) ==
    /\ rpc[s] = "setrun"
    /\ building' = [building EXCEPT ![s] = FALSE]
    /\ finished' = [finished EXCEPT ![s] = FALSE]
    /\ rpc' = [rpc EXCEPT ![s] = "check"]
    /\ UNCHANGED <<template, lock, viz_components, heap, model, sim,
                   components, initVars, rIdx, popVars, histVars>>

\* a loop that tests the flag only after its first step
SetRunningThenRun(s) ==
    /\ rpc[s] = "setrun"
    /\ building' = [building EXCEPT ![s] = FALSE]
    /\ rpc' = [rpc EXCEPT ![s] = "run"]
    /\ UNCHANGED <<template, lock, viz_components, heap, model, finished,
                   sim, components, initVars, rIdx, popVars, histVars>>

\* line 43: self.building = False
SetRunning(s) ==
    /\ rpc[s] = "setrun"
    /\ building' = [building EXCEPT ![s] = FALSE]
    /\ rpc' = [rpc EXCEPT ![s] = "check"]
    /\ UNCHANGED <<template, lock, viz_components, heap, model, finished,
                   sim, components, initVars, rIdx, popVars, histVars>>

\* line 46: while not self.finished
Check(s) ==
    /\ rpc[s] = "check"
    /\ rpc' = [rpc EXCEPT ![s] = IF finished[s] THEN "done" ELSE "run"]
    /\ UNCHANGED <<template, lock, viz_components, heap, model, sessVars,
                   initVars, rIdx, popVars, histVars>>

\* a loop that goes on to the next step without testing the flag
RunNoRecheck(s) ==
    /\ rpc[s] = "run"
    /\ lateSteps' = [lateSteps EXCEPT ![s] =
                        IF finished[s] /\ @ < MaxLate THEN @ + 1 ELSE @]
    /\ UNCHANGED <<template, lock, viz_components, heap, model, building,
                   finished, sim, components, initVars, runVars, popVars,
                   nAtCall, finBuilding>>

\* line 47: self.sim.run(0.1, progress_bar=False)
Run(s) ==
    /\ rpc[s] = "run"
    /\ lateSteps' = [lateSteps EXCEPT ![s] =
                        IF finished[s] /\ @ < MaxLate THEN @ + 1 ELSE @]
    /\ rpc' = [rpc EXCEPT ![s] = "check"]
    /\ UNCHANGED <<template, lock, viz_components, heap, model, building,
                   finished, sim, components, initVars, rIdx, popVars,
                   nAtCall, finBuilding>>

\* ---------------------------------------------------------- VizSim.finish

\* a thread can call finish() once it has the session: from a component
\* built with it (line 26) or from create_sim()'s return value
Reachable(s) == cpc[s] \in {"add", "returned", "raised"} \/ cIdx[s] > 0

\* a stop request that also drops the session's unclaimed components
finishExpires(s) ==
    /\ Reachable(s)
    /\ finished' = [finished EXCEPT ![s] = TRUE]
    /\ finBuilding' = [finBuilding EXCEPT ![s] = @ \/ (~finished[s] /\ building[s])]
    /\ viz_components' = [k \in {j \in DOMAIN viz_components :
                                    heap[viz_components[j]].viz_sim # s}
                             |-> viz_components[k]]
    /\ UNCHANGED <<template, lock, heap, model, building, sim, components,
                   initVars, runVars, popVars, nAtCall, lateSteps>>

\* lines 49-50: self.finished = True
finish(s) ==
    /\ Reachable(s)
    /\ finished' = [finished EXCEPT ![s] = TRUE]
    /\ finBuilding' = [finBuilding EXCEPT ![s] = @ \/ (~finished[s] /\ building[s])]
    /\ UNCHANGED <<template, lock, viz_components, heap, model, building,
                   sim, components, initVars, runVars, popVars, nAtCall,
                   lateSteps>>

\* ----------------------------------------------------- Viz.pop_component

\* a lookup that yields None for an absent id, as self.components.get(id)
PopReadGet(p, id) ==
    /\ ppc[p] = "idle"
    /\ \A q \in Poppers : q < p => ppc[q] # "idle"
    /\ pId' = [pId EXCEPT ![p] = id]
    /\ pC' = [pC EXCEPT ![p] =
                 IF id \in DOMAIN viz_components THEN viz_components[id] ELSE 0]
    /\ ppc' = [ppc EXCEPT ![p] = "del"]
    /\ UNCHANGED <<template, lock, viz_components, heap, model, sessVars,
                   initVars, runVars, histVars>>

\* line 100: c = self.components[id], raising KeyError when id is absent
\* (the call ends and its locals go).  Calls are numbered in the order of
\* their first step.
PopRead(p, id) ==
    /\ ppc[p] = "idle"
    /\ \A q \in Poppers : q < p => ppc[q] # "idle"
    /\ IF id \in DOMAIN viz_components
         THEN /\ pId' = [pId EXCEPT ![p] = id]
              /\ pC' = [pC EXCEPT ![p] = viz_components[id]]
              /\ ppc' = [ppc EXCEPT ![p] = "del"]
         ELSE /\ pId' = pId
              /\ pC' = pC
              /\ ppc' = [ppc EXCEPT ![p] = "raised100"]
    /\ UNCHANGED <<template, lock, viz_components, heap, model, sessVars,
                   initVars, runVars, histVars>>

\* a removal that tolerates an absent id, as self.components.pop(id, None)
PopDelQuiet(p) ==
    /\ ppc[p] = "del"
    /\ viz_components' = [k \in (DOMAIN viz_components) \ {pId[p]} |-> viz_components[k]]
    /\ ppc' = [ppc EXCEPT ![p] = "returned"]
    /\ pId' = [pId EXCEPT ![p] = 0]
    /\ UNCHANGED <<template, lock, heap, model, sessVars, initVars, runVars,
                   pC, histVars>>

\* line 101: del self.components[id], raising KeyError when id is absent;
\* line 102: return c (pC keeps the returned component)
PopDel(p) ==
    /\ ppc[p] = "del"
    /\ IF pId[p] \in DOMAIN viz_components
         THEN /\ viz_components' = [k \in (DOMAIN viz_components) \ {pId[p]} |-> viz_components[k]]
              /\ ppc' = [ppc EXCEPT ![p] = "returned"]
              /\ pC' = pC
         ELSE /\ viz_components' = viz_components
              /\ ppc' = [ppc EXCEPT ![p] = "raised101"]
              /\ pC' = [pC EXCEPT ![p] = 0]
    /\ pId' = [pId EXCEPT ![p] = 0]
    /\ UNCHANGED <<template, lock, heap, model, sessVars, initVars, runVars,
                   histVars>>

\* -------------------------------------------------------- specification

\* slider() and value() calls
NextViz ==
    \/ \E a \in ArgKinds : slider(a)
    \/ \E a \in ArgKinds : value(a)

\* create_sim() calls: VizSim.__init__ on the calling threads
NextInit ==
    \/ \E s \in Sessions : create_sim(s)
    \/ \E s \in Sessions : Acquire(s)
    \/ \E s \in Sessions : Construct(s)
    \/ \E s \in Sessions : ConstructFail(s)
    \/ \E s \in Sessions : Register(s)
    \/ \E s \in Sessions : StartRunner(s)

\* one step of the create_sim() call of session s
InitStep(s) ==
    \/ Acquire(s)
    \/ Construct(s)
    \/ ConstructFail(s)
    \/ Register(s)
    \/ StartRunner(s)

\* one step of the runner thread of session s: lines 35-41, under the lock
RunnerBuildStep(s) ==
    \/ Build(s)
    \/ BuildFail(s)
    \/ Undo(s)
    \/ Release(s)

\* lines 43-47, after the release
RunnerLoopStep(s) ==
    \/ SetRunning(s)
    \/ Check(s)
    \/ Run(s)

RunnerStep(s) == RunnerBuildStep(s) \/ RunnerLoopStep(s)

NextRunner == \E s \in Sessions : RunnerStep(s)

NextFinish == \E s \in Sessions : finish(s)

NextPop ==
    \/ \E p \in Poppers, id \in Objs : PopRead(p, id)
    \/ \E p \in Poppers : PopDel(p)

\* the whole program
Next == NextViz \/ NextInit \/ NextRunner \/ NextFinish \/ NextPop

Spec == Init /\ [][Next]_vars

\* each runner is a thread of its own, which the interpreter schedules again
\* and again: a runner that can take a step eventually takes one
FairSpec == Spec /\ \A s \in Sessions : WF_vars(RunnerStep(s))

\* configuration, session creation and the runners, with no stop request
\* and no connection: finish() writes only VizSim.finished, which only
\* line 46 reads, and pop_component() writes only Viz.components, which
\* nothing else reads
BuildSpec == Init /\ [][NextViz \/ NextInit \/ NextRunner]_vars

\* a configured organizer whose sessions are created, run and stopped
StopSpec == InitConfigured /\ [][NextInit \/ NextRunner \/ NextFinish]_vars

\* the same, with the runners scheduled fairly
FairStopSpec == StopSpec /\ \A s \in Sessions : WF_vars(RunnerStep(s))

\* the same, with the threads that call create_sim() scheduled fairly too:
\* a call that can take a step, the blocking acquire of line 22 included
\* once the lock is free, eventually takes one
ProgressSpec ==
    StopSpec /\ \A s \in Sessions : WF_vars(InitStep(s)) /\ WF_vars(RunnerStep(s))

\* the whole program under the same scheduling
FairProgramSpec ==
    Spec /\ \A s \in Sessions : WF_vars(InitStep(s)) /\ WF_vars(RunnerStep(s))

\* a configured organizer whose sessions are created and built while
\* connections claim components.  The runners stop at the release: what
\* they do after it (lines 43-47) neither reads nor writes the registry,
\* the lock or anything __init__ and pop_component() read.
NextBuild == \E s \in Sessions : RunnerBuildStep(s)

RegistrySpec == InitConfigured /\ [][NextInit \/ NextBuild \/ NextPop]_vars

\* ------------------------------------------------------------- properties

\* the components constructed for session s
Owned(s) == {c \in DOMAIN heap : heap[c].viz_sim = s}

Returned == {s \in Sessions : cpc[s] = "returned"}

\* C1: at every instant at most one session is between its acquire of
\* viz.lock (line 22) and its release (line 41), and the lock is locked
\* while a session is there.
MutualExclusion ==
    /\ Cardinality({s \in Sessions : Holds(s)}) <= 1
    /\ (\E s \in Sessions : Holds(s)) => lock

\* C1 witness: one session holds the lock while another waits at line 22
C1_Contended ==
    \E s, t \in Sessions : s # t /\ Holds(s) /\ cpc[t] = "acquire"

\* C2: no two pop_component() calls return the same component, a returned
\* component's id is no longer in the registry, and a call whose line 101
\* finds that another call has already returned its component ends with
\* KeyError.
OneShotClaim ==
    /\ [](\A p, q \in Poppers :
            (p # q /\ ppc[p] = "returned" /\ ppc[q] = "returned") => pC[p] # pC[q])
    /\ [](\A p \in Poppers :
            ppc[p] = "returned" => Id(pC[p]) \notin DOMAIN viz_components)
    /\ [][\A p \in Poppers :
            ( /\ ppc[p] = "del" /\ ppc'[p] # "del"
              /\ \E q \in Poppers : q # p /\ ppc[q] = "returned" /\ pC[q] = pC[p] )
            => ppc'[p] = "raised101"]_vars

\* C2 witness: two calls read the same id at line 100 before either
\* deleted it; one has returned the component and the other raised
\* KeyError at line 101
C2_Raced ==
    \E p, q \in Poppers :
        p # q /\ ppc[p] = "returned" /\ ppc[q] = "raised101"

BuildFailureReleasesLock ==
    \A s \in Sessions :
        rpc[s] = "failed" => (~lock \/ \E t \in Sessions : t # s /\ Holds(t))

\* C5: a session whose building flag is False has no component whose
\* temporary objects are still in the model.
UndoBeforeRun ==
    \A s \in Sessions : ~building[s] => Owned(s) \cap model = {}

\* C5 witness: a session with two components has left BUILDING
C5_RunningWithTwo ==
    \E s \in Sessions : ~building[s] /\ Len(components[s]) >= 2

\* C6: a runner starts at most one sim.run step after finish() was called
\* on its session, and once finish() has been called on a session whose
\* runner has started, the runner eventually leaves its loop (or has ended
\* at line 35 without entering it).
CooperativeStop ==
    /\ [](\A s \in Sessions : lateSteps[s] <= 1)
    /\ \A s \in Sessions :
           (finished[s] /\ rpc[s] # "unstarted") ~> (rpc[s] \in {"done", "failed"})

\* C6 witness: finish() came after the loop test had passed; the runner
\* took that one step and left the loop
C6_OneLateStep ==
    \E s \in Sessions : rpc[s] = "done" /\ lateSteps[s] = 1 /\ ~finBuilding[s]

\* C7: a session that finish() was called on while it was building never
\* starts a sim.run step; when its runner has left the loop the simulator
\* is built, remove_nengo_objects has been called on every component, and
\* the lock is released; and its runner does leave the loop unless the
\* Simulator factory raised.
StopDuringBuild ==
    /\ [](\A s \in Sessions :
            finBuilding[s] =>
                /\ lateSteps[s] = 0
                /\ rpc[s] # "run"
                /\ rpc[s] = "done" =>
                       /\ sim[s]
                       /\ rIdx[s] = Len(components[s])
                       /\ Owned(s) \cap model = {}
                       /\ ~Holds(s)
                       /\ ~building[s])
    /\ \A s \in Sessions :
           (finBuilding[s] /\ rpc[s] # "unstarted") ~> (rpc[s] \in {"done", "failed"})

\* C7 witness: finish() was called while a session of two components was
\* building, and its runner has left the loop
C7_StoppedWhileBuilding ==
    \E s \in Sessions :
        finBuilding[s] /\ rpc[s] = "done" /\ Len(components[s]) >= 2

\* C8 as stated: a session whose create_sim() has returned has one
\* component per entry the template had when create_sim() was called, in
\* template order.
TemplateFidelity ==
    \A s \in Returned :
        /\ Len(components[s]) = nAtCall[s]
        /\ \A i \in 1..Len(components[s]) :
               heap[components[s][i]].cls = template[i].cls

\* C9: when create_sim() has returned, every component of the session is
\* in the registry under its own id; and with no call in progress or
\* raised and no claim made, k sessions of N components each leave exactly
\* k*N ids in the registry.
RegistrationBeforeReturn ==
    (\A p \in Poppers : ppc[p] # "returned") =>
        /\ \A s \in Returned : \A i \in 1..Len(components[s]) :
               /\ Id(components[s][i]) \in DOMAIN viz_components
               /\ viz_components[Id(components[s][i])] = components[s][i]
        /\ \A N \in 1..MaxTemplate :
               ( /\ \A s \in Sessions : cpc[s] \in {"idle", "returned"}
                 /\ \A s \in Returned : Len(components[s]) = N )
               => Cardinality(DOMAIN viz_components) = N * Cardinality(Returned)

\* C9 witness: two sessions of two components each have been created and
\* the registry holds four ids
C9_TwoByTwo ==
    /\ Cardinality({s \in Returned : Len(components[s]) = 2}) = 2
    /\ \A s \in Sessions : cpc[s] \in {"idle", "returned"}
    /\ Cardinality(DOMAIN viz_components) = 4

\* C10: every step that adds a component's objects to the model or removes
\* them is taken while the component's session holds the lock and no
\* other session does.
ModelWritesUnderLock ==
    [][\A c \in Objs :
          ((c \in model) # (c \in model')) =>
              /\ lock
              /\ Holds(heap'[c].viz_sim)
              /\ \A t \in Sessions : t # heap'[c].viz_sim => ~Holds(t)]_vars

\* C10 witness: a session has removed a component's objects from the model
\* while another session waits for the lock
C10_UndoWhileWaiting ==
    \E s, t \in Sessions :
        /\ s # t
        /\ rpc[s] = "undo" /\ rIdx[s] >= 1 /\ Owned(s) \cap model # Owned(s)
        /\ cpc[t] = "acquire"

\* C11: a pop_component() call gets past line 100 only for an id that is
\* in the registry and returns only after deleting a present id; a call
\* that ends with KeyError (at line 100, or at line 101 when the id has
\* gone meanwhile) leaves the registry, the template, the lock, the model
\* and every session unchanged.
FailedClaimHarmless ==
    [][\A p \in Poppers :
          /\ (ppc[p] = "idle" /\ ppc'[p] = "del") =>
                 (pId'[p] \in DOMAIN viz_components /\ pC'[p] = viz_components[pId'[p]])
          /\ (ppc[p] = "del" /\ ppc'[p] = "returned") =>
                 pId[p] \in DOMAIN viz_components
          /\ (ppc[p] = "del" /\ pId[p] \notin DOMAIN viz_components /\ ppc'[p] # "del") =>
                 ppc'[p] = "raised101"
          /\ (ppc[p] # ppc'[p] /\ ppc'[p] \in {"raised100", "raised101"}) =>
                 UNCHANGED <<viz_components, template, lock, heap, model,
                             sessVars, initVars, runVars>>]_vars

\* C11 witness: one call has claimed a component and another call has
\* ended with KeyError at line 100 while the registry still holds others
C11_FailedBesideClaimed ==
    /\ \E p, q \in Poppers : ppc[p] = "returned" /\ ppc[q] = "raised100"
    /\ DOMAIN viz_components # {}

\* C12 as stated: no malformed entry gets into the template, and no
\* create_sim() call raises on one.
MalformedRejectedAtConfiguration ==
    /\ \A i \in 1..Len(template) : template[i].args = "ok"
    /\ \A s \in Sessions : cpc[s] # "raised"

\* C13: a session without a simulator is still building and its runner is
\* not in the run loop; a runner that ended at line 35 has no simulator and
\* takes no further step.
FailedBuildNeverRuns ==
    /\ [](\A s \in Sessions :
            /\ ~sim[s] => (building[s] /\ rpc[s] \notin {"setrun", "check", "run", "done"})
            /\ rpc[s] = "failed" => (~sim[s] /\ lateSteps[s] = 0))
    /\ [][\A s \in Sessions :
            rpc[s] = "failed" =>
                (rpc'[s] = "failed" /\ building'[s] /\ ~sim'[s]
                 /\ lateSteps'[s] = lateSteps[s])]_vars

\* C13 witness: the factory raised in a session's runner and finish() was
\* called on the session afterwards
C13_FailedThenFinished ==
    \E s \in Sessions : rpc[s] = "failed" /\ finished[s] /\ building[s]

\* C14: the finished flag of a session stays True once it is True; it
\* becomes True only in a finish() step; and a finish() step on a session
\* that is already finished changes nothing.
FinishedAbsorbing ==
    [][\A s \in Sessions :
          /\ finished[s] => finished'[s]
          /\ (~finished[s] /\ finished'[s]) => finish(s)
          /\ (finished[s] /\ finish(s)) => UNCHANGED vars]_vars

\* C14 witness: finish() was called while the session was building, the
\* runner has since built, undone, released, set building to False and
\* left the loop, and the flag is still True
C14_StillFinished ==
    \E s \in Sessions :
        finished[s] /\ finBuilding[s] /\ ~building[s] /\ rpc[s] = "done"

\* C15: a step that changes the template appends one entry at its end and
\* leaves the registry, the lock and the model unchanged; and no step
\* changes the component list of a session whose create_sim() has
\* returned, so an entry appended after the return is in no such list.
ConfigurationDoesNotReachBack ==
    [][/\ template' # template =>
             /\ Len(template') = Len(template) + 1
             /\ SubSeq(template', 1, Len(template)) = template
             /\ UNCHANGED <<viz_components, lock, model>>
       /\ \A s \in Returned : components'[s] = components[s]]_vars

\* C15 witness: one session was created with the one-entry template, an
\* entry was appended, and a session created afterwards has two components
C15_BeforeAndAfter ==
    \E s, t \in Returned :
        /\ Len(components[s]) = 1 /\ Len(components[t]) = 2
        /\ nAtCall[t] = 2 /\ Len(template) = 2

\* C16: an id in the registry stays mapped to the same component in every
\* step, except the step in which a pop_component(id) call deletes it at
\* line 101 and returns.
NoExpiry ==
    [][\A id \in DOMAIN viz_components :
          \/ (id \in DOMAIN viz_components' /\ viz_components'[id] = viz_components[id])
          \/ \E p \in Poppers :
                 ppc[p] = "del" /\ pId[p] = id /\ ppc'[p] = "returned"]_vars

\* C16 witness: a session was stopped and its runner has left the loop,
\* a component of another session was claimed, and a component of the
\* stopped session is still in the registry
C16_KeptAfterStop ==
    \E s \in Sessions :
        /\ rpc[s] = "done"
        /\ \E c \in Owned(s) : c \in DOMAIN viz_components /\ viz_components[c] = c
        /\ \E p \in Poppers : ppc[p] = "returned" /\ pC[p] \notin Owned(s)

\* C17: a runner has started only when its session's __init__ loop has
\* ended with every component instantiated, registered and listed; the
\* runner enters line 35 once, from its start; each step of its removal
\* loop takes the next component in list order, whose objects are still
\* in the model, and removes exactly them, after the build and before the
\* release; and past the release every component has been taken.
UndoOnceInOrder ==
    /\ [](\A s \in Sessions :
            /\ rpc[s] # "unstarted" =>
                   /\ cpc[s] = "returned"
                   /\ Len(components[s]) = cIdx[s]
                   /\ \A i \in 1..Len(components[s]) :
                          heap[components[s][i]].cls = template[i].cls
                   /\ Owned(s) = {components[s][i] : i \in 1..Len(components[s])}
            /\ rpc[s] \in {"setrun", "check", "run", "done"} =>
                   (rIdx[s] = Len(components[s]) /\ Owned(s) \cap model = {}))
    /\ [][\A s \in Sessions :
            /\ rpc'[s] = "build" => rpc[s] \in {"unstarted", "build"}
            /\ rIdx'[s] # rIdx[s] =>
                   /\ rIdx'[s] = rIdx[s] + 1
                   /\ sim[s] /\ Holds(s) /\ lock
                   /\ components[s][rIdx'[s]] \in model
                   /\ model' = model \ {components[s][rIdx'[s]]}
                   /\ Owned(s) \cap model =
                          {components[s][i] : i \in rIdx'[s]..Len(components[s])}]_vars

\* C17 witness: the runner of a session of two components has called
\* remove_nengo_objects on both and released the lock
C17_BothUndone ==
    \E s \in Sessions :
        rpc[s] = "setrun" /\ rIdx[s] = 2 /\ Len(components[s]) = 2 /\ ~lock

\* C18: a session whose building flag is False does not hold the lock, and
\* the lock is then locked only when another session holds it.
ReleasedBeforeRunning ==
    \A s \in Sessions :
        ~building[s] =>
            /\ ~Holds(s)
            /\ lock => \E t \in Sessions : t # s /\ Holds(t)

\* C18 witness: one session steps its simulation while another session,
\* which acquired the lock after it, is building
C18_RunningBesideBuilding ==
    \E s, t \in Sessions :
        s # t /\ ~building[s] /\ rpc[s] = "run" /\ rpc[t] = "build" /\ lock

\* C19: under fair scheduling of the calling threads and the runners, when
\* no component construction and no simulator build ever raises, every
\* create_sim() call that has been made eventually returns and its session
\* eventually has building = False.
ProgressWithoutDeadlock ==
    (\A s \in Sessions : [](cpc[s] # "raised" /\ rpc[s] # "failed")) =>
        \A s \in Sessions :
            /\ (cpc[s] # "idle") ~> (cpc[s] = "returned")
            /\ (cpc[s] # "idle") ~> (~building[s])

\* C19 witness: every session has been created, with more than one
\* component each, and each has returned from create_sim() and left the
\* build
C19_AllBuilt ==
    \A s \in Sessions :
        cpc[s] = "returned" /\ ~building[s] /\ Len(components[s]) = MaxTemplate

\* C20: viz.lock changes only in the acquire of line 22, which finds it
\* free, and in the release of line 41, which finds it locked and held by
\* the releasing session and by no other; a session reaches line 22 once,
\* from its creation, and line 41 once, from its removal loop, which it
\* enters once.
BalancedLockUse ==
    [][/\ lock' # lock =>
             \/ \E s \in Sessions :
                    ~lock /\ cpc[s] = "acquire" /\ cpc'[s] = "loop"
             \/ \E s \in Sessions :
                    /\ lock /\ Holds(s)
                    /\ rpc[s] = "undo" /\ rpc'[s] = "setrun"
                    /\ \A u \in Sessions : u # s => ~Holds(u)
       /\ \A s \in Sessions :
             /\ cpc'[s] = "acquire" => cpc[s] \in {"idle", "acquire"}
             /\ (cpc[s] = "acquire" /\ cpc'[s] # "acquire") =>
                    (cpc'[s] = "loop" /\ ~lock /\ lock')
             /\ (cpc[s] # "acquire" /\ cpc'[s] = "loop") => cpc[s] \in {"loop", "add"}
             /\ rpc'[s] = "undo" => rpc[s] \in {"build", "undo"}
             /\ rpc'[s] = "build" => rpc[s] \in {"unstarted", "build"}
             /\ (rpc[s] # "setrun" /\ rpc'[s] = "setrun") =>
                    (rpc[s] = "undo" /\ lock /\ Holds(s) /\ ~lock')
             /\ (rpc[s] = "setrun" /\ rpc'[s] # "setrun") => rpc'[s] = "check"]_vars

\* C20 witness: one session has released the lock at line 41 and another
\* has acquired it since and is in its component loop
C20_ReleasedThenAcquired ==
    \E s, u \in Sessions :
        s # u /\ rpc[s] = "setrun" /\ cpc[u] = "loop" /\ lock

====
